---------------------------- MODULE Spec2Model ----------------------------
(***************************************************************************)
(* Olexi MCP server (src/mcp_server.py): the tools list_databases,         *)
(* search_austlii, build_search_url and search_with_progress and the       *)
(* resource olexi://databases, served as tasks of one asyncio event loop.  *)
(*                                                                         *)
(* Text that is only copied is a TLA+ string; text that is encoded (the    *)
(* query and the database codes of build_search_url) is a sequence of      *)
(* one-character strings.  A Python value is a record [kind, text]: kind   *)
(* "str" is a str, "url" a structured URL object whose text form is        *)
(* `text`, "none" is None and "missing" an attribute the object lacks.     *)
(***************************************************************************)
EXTENDS Integers, Sequences, FiniteSets, TLC

VARIABLES
    catalog,      \* the module global DATABASE_TOOLS_LIST
    tool,         \* tool[i]: the tool request i invokes ("none": not arrived)
    req,          \* req[i]: the arguments [query, databases] of request i
    pc,           \* pc[i]: the line of the handler request i is at
    running,      \* the request whose handler holds the event loop, 0: none
    raw,          \* raw[i]: what scrape() gave request i
    scrapeCalls,  \* scrapeCalls[i]: the argument lists scrape() got from i
    out,          \* out[i]: the handler's local list output / out
    ret,          \* ret[i]: what the handler returned or raised
    sink          \* sink[c]: what the Context object c was told, in order

vars == <<catalog, tool, req, pc, running, raw, scrapeCalls, out, ret, sink>>

----------------------------------------------------------------------------
(* Bounds *)

\* requests the concurrent server handles
NumInv == 2
\* raw records one scrape returns, in the sequential pair
MaxResults == 2
\* characters of a query given to build_search_url
MaxQueryLen == 2
\* database codes given to build_search_url
MaxDbs == 2

\* all sequences over S of length at most n
SeqsUpTo(S, n) == UNION {[1..k -> S] : k \in 0..n}

----------------------------------------------------------------------------
(* Python values *)

Str(s) == [kind |-> "str", text |-> s]
UrlObj(s) == [kind |-> "url", text |-> s]
PyNone == [kind |-> "none", text |-> ""]
Missing == [kind |-> "missing", text |-> ""]

\* str(v): a str is itself, a URL object gives its text form, None gives "None"
PyStr(v) ==
    CASE v.kind = "str" -> v
      [] v.kind = "url" -> Str(v.text)
      [] v.kind = "none" -> Str("None")

Ok(v) == [ok |-> TRUE, val |-> v, error |-> ""]
Raise(e) == [ok |-> FALSE, val |-> <<>>, error |-> e]

\* SearchResultItem(title=..., url=..., metadata=...): pydantic checks that
\* title and url are str and that metadata is a str or None
SearchResultItem(title, url, metadata) ==
    IF title.kind = "str" /\ url.kind = "str" /\ metadata.kind \in {"str", "none"}
    THEN Ok([title |-> title, url |-> url, metadata |-> metadata])
    ELSE Raise("ValidationError")

\* the attributes item.title, item.url and item.metadata all exist
HasAttrs(item) ==
    /\ item.title.kind # "missing"
    /\ item.url.kind # "missing"
    /\ item.metadata.kind # "missing"


\* a slip: url=item.url, without str()
SyncItemNoStr(item) ==
    IF ~HasAttrs(item) THEN Raise("AttributeError")
    ELSE SearchResultItem(item.title, item.url, item.metadata)

\* line 58: SearchResultItem(title=item.title, url=str(item.url),
\* metadata=item.metadata); reading an attribute the record lacks raises
SyncItem(item) ==
    IF ~HasAttrs(item) THEN Raise("AttributeError")
    ELSE SearchResultItem(item.title, PyStr(item.url), item.metadata)

\* lines 55-60 of search_austlii: the loop over results, appending to output
RECURSIVE SyncLoop(_, _)
SyncLoop(results, output) ==
    IF results = <<>> THEN Ok(output)
    ELSE LET r == SyncItem(Head(results))
         IN IF r.ok THEN SyncLoop(Tail(results), Append(output, r.val))
            ELSE Raise(r.error)

\* a slip: the metadata is not passed on
ProgressItemDropsMetadata(item) ==
    IF ~HasAttrs(item) THEN Raise("AttributeError")
    ELSE SearchResultItem(item.title, PyStr(item.url), PyNone)

\* line 92: the same construction in search_with_progress
ProgressItem(item) ==
    IF ~HasAttrs(item) THEN Raise("AttributeError")
    ELSE SearchResultItem(item.title, PyStr(item.url), item.metadata)

\* lines 90-92 of search_with_progress: the loop over results, appending to out
RECURSIVE ProgressLoop(_, _)
ProgressLoop(results, o) ==
    IF results = <<>> THEN Ok(o)
    ELSE LET r == ProgressItem(Head(results))
         IN IF r.ok THEN ProgressLoop(Tail(results), Append(o, r.val))
            ELSE Raise(r.error)

----------------------------------------------------------------------------
(* build_search_url and urllib.parse.urlencode *)

\* characters quote() never escapes: letters, digits and _ . - ~
AlwaysSafe ==
    {"a","b","c","d","e","f","g","h","i","j","k","l","m","n","o","p","q","r",
     "s","t","u","v","w","x","y","z","A","B","C","D","E","F","G","H","I","J",
     "K","L","M","N","O","P","Q","R","S","T","U","V","W","X","Y","Z","0","1",
     "2","3","4","5","6","7","8","9","_",".","-","~"}

\* the two hex digits of the ASCII code of an escaped character
AsciiHex(c) ==
    CASE c = " "  -> <<"2", "0">>
      [] c = "\"" -> <<"2", "2">>
      [] c = "%"  -> <<"2", "5">>
      [] c = "&"  -> <<"2", "6">>
      [] c = "+"  -> <<"2", "B">>
      [] c = "/"  -> <<"2", "F">>
      [] c = "="  -> <<"3", "D">>

\* a slip: + is taken for a safe character
QuoteCharPlusSafe(c) ==
    IF c \in AlwaysSafe \cup {"+"} THEN <<c>>
    ELSE IF c = " " THEN <<"+">>
    ELSE <<"%">> \o AsciiHex(c)

\* quote_plus on one character: safe as is, a space as +, the rest as %XX
QuoteChar(c) ==
    IF c \in AlwaysSafe THEN <<c>>
    ELSE IF c = " " THEN <<"+">>
    ELSE <<"%">> \o AsciiHex(c)

RECURSIVE quote_plus(_)
quote_plus(s) ==
    IF s = <<>> THEN <<>> ELSE QuoteChar(Head(s)) \o quote_plus(Tail(s))

\* urlencode(params): quote_plus(k) = quote_plus(v), joined by &
RECURSIVE urlencode(_)
urlencode(params) ==
    IF params = <<>> THEN <<>>
    ELSE LET kv == Head(params)
             one == quote_plus(kv[1]) \o <<"=">> \o quote_plus(kv[2])
         IN IF Len(params) = 1 THEN one
            ELSE one \o <<"&">> \o urlencode(Tail(params))

K_query == <<"q","u","e","r","y">>
K_method == <<"m","e","t","h","o","d">>
K_meta == <<"m","e","t","a">>
K_mask_path == <<"m","a","s","k","_","p","a","t","h">>
V_boolean == <<"b","o","o","l","e","a","n">>
V_au == <<"/","a","u">>
\* the endpoint, kept as one token of the URL text
SearchEndpoint == "https://www.austlii.edu.au/cgi-bin/sinosrch.cgi"

\* line 65: the fixed head of the parameter list
FixedParams(query) ==
    << <<K_query, query>>, <<K_method, V_boolean>>, <<K_meta, V_au>> >>

\* a slip: the codes are taken last first
MaskParamsReversed(databases) ==
    [k \in 1..Len(databases) |-> <<K_mask_path, databases[Len(databases) + 1 - k]>>]

\* lines 66-67: one ("mask_path", db_code) per database code, in order
MaskParams(databases) ==
    [k \in 1..Len(databases) |-> <<K_mask_path, databases[k]>>]

\* lines 65-68
build_search_url(query, databases) ==
    <<SearchEndpoint, "?">>
        \o urlencode(FixedParams(query) \o MaskParams(databases))

----------------------------------------------------------------------------
(* The catalog, the scraper and the progress sink *)

\* database_map.DATABASE_TOOLS_LIST (imported at line 8): two of its entries
DATABASE_TOOLS_LIST ==
    << [code |-> "au/cases/cth/HCA", name |-> "High Court of Australia"],
       [code |-> "au/legis/cth/consol_act", name |-> "Commonwealth Consolidated Acts"] >>

\* json.dumps(DATABASE_TOOLS_LIST, indent=2), as the tokens of the JSON text
RECURSIVE JsonObjects(_)
JsonObjects(cat) ==
    IF cat = <<>> THEN <<>>
    ELSE <<"{", "\"code\":", Head(cat).code, ",", "\"name\":", Head(cat).name, "}">>
            \o (IF Len(cat) > 1 THEN <<",">> ELSE <<>>)
            \o JsonObjects(Tail(cat))

JsonDumps(cat) == <<"[">> \o JsonObjects(cat) \o <<"]">>

\* a slip: the first entry is popped off the shared list
list_databases_pops(cat) == [result |-> cat, catalog |-> Tail(cat)]

\* line 48: list_databases returns the catalog and leaves it as it is
list_databases(cat) == [result |-> cat, catalog |-> cat]

\* line 28: the resource returns the catalog's JSON text and leaves it as it is
list_databases_resource(cat) == [result |-> JsonDumps(cat), catalog |-> cat]

\* the raw records austlii_scraper.search_austlii may return: title, url and
\* metadata, the url a str or a URL object, and the malformed ones
RawRecordKinds ==
    { [title |-> Str("Mabo v Queensland"), url |-> Str("https://example/1"),
       metadata |-> Str("[1992] HCA 23")],
      [title |-> Str("Wik Peoples v Queensland"), url |-> UrlObj("https://example/2"),
       metadata |-> PyNone],
      [title |-> PyNone, url |-> Str("https://example/3"), metadata |-> PyNone],
      [title |-> Missing, url |-> Str("https://example/4"), metadata |-> PyNone],
      [title |-> Str("Null url"), url |-> PyNone, metadata |-> PyNone],
      [title |-> Str("No url"), url |-> Missing, metadata |-> PyNone] }

\* the failures of the scrape: the network, the shape of the response
ScrapeErrors == {"ConnectionError", "ParseError"}

\* what one scrape() call does: raises, or returns at most n raw records
ScrapeOutcomes(n) ==
    {Raise(e) : e \in ScrapeErrors} \cup {Ok(rs) : rs \in SeqsUpTo(RawRecordKinds, n)}

NoOutcome == [ok |-> FALSE, val |-> <<>>, error |-> ""]

\* ctx.info and ctx.report_progress calls; progress and total in tenths
\* line 86
InfoEvent == [kind |-> "info", message |-> "Starting AustLII search..."]
\* line 87
ScrapingEvent == [kind |-> "progress", progress |-> 3, total |-> 10, message |-> "Scraping"]
\* line 89
PackagingEvent == [kind |-> "progress", progress |-> 9, total |-> 10, message |-> "Packaging"]
\* line 93
DoneEvent == [kind |-> "progress", progress |-> 10, total |-> 10, message |-> "Done"]

\* a slip: one Context object for all requests
CtxShared(i) == 1

\* line 72: each request gets a Context object of its own
CtxOf(i) == i

Emit(s, i, e) == [s EXCEPT ![CtxOf(i)] = Append(@, e)]

----------------------------------------------------------------------------
(* Requests *)

SearchTools == {"search_austlii", "search_with_progress"}
CatalogTools == {"list_databases", "list_databases_resource"}

Q_native_title == <<"n","a","t","i","v","e"," ","t","i","t","l","e">>
Q_mabo == <<"m","a","b","o">>
DB_HCA == <<"a","u","/","c","a","s","e","s","/","c","t","h","/","H","C","A">>

NoReq == [query |-> <<>>, databases |-> <<>>]

\* the arguments of the search requests
Requests ==
    { [query |-> Q_native_title, databases |-> <<DB_HCA>>],
      [query |-> Q_mabo, databases |-> <<>>] }

\* the requests a client may send
Calls ==
    [tool : SearchTools \cup {"build_search_url"}, req : Requests]
        \cup [tool : CatalogTools, req : {NoReq}]

\* the first line of each handler
Entry(t) ==
    CASE t = "list_databases_resource" -> "l28"
      [] t = "list_databases" -> "l48"
      [] t = "search_austlii" -> "l53"
      [] t = "build_search_url" -> "l65"
      [] t = "search_with_progress" -> "l86"

NoRet == [kind |-> "none", val |-> <<>>]
ErrorRet(e) == [kind |-> "error", val |-> e]
ItemsRet(items) == [kind |-> "items", val |-> items]

Terminated(i) == pc[i] \in {"done", "failed"}

\* a handler runs when the loop is free or is its own
CanRun(i) == running = 0 \/ running = i

InitOn(I) ==
    /\ catalog = DATABASE_TOOLS_LIST
    /\ tool = [i \in I |-> "none"]
    /\ req = [i \in I |-> NoReq]
    /\ pc = [i \in I |-> "idle"]
    /\ running = 0
    /\ raw = [i \in I |-> NoOutcome]
    /\ scrapeCalls = [i \in I |-> <<>>]
    /\ out = [i \in I |-> <<>>]
    /\ ret = [i \in I |-> NoRet]
    /\ sink = [i \in I |-> <<>>]

\* the server takes request c as task i
Invoke(i, c) ==
    /\ running = 0
    /\ pc[i] = "idle"
    /\ tool' = [tool EXCEPT ![i] = c.tool]
    /\ req' = [req EXCEPT ![i] = c.req]
    /\ pc' = [pc EXCEPT ![i] = Entry(c.tool)]
    /\ UNCHANGED <<catalog, running, raw, scrapeCalls, out, ret, sink>>

----------------------------------------------------------------------------
(* The synchronous handlers *)

\* lines 25-28
ListDatabasesResource(i) ==
    /\ CanRun(i)
    /\ pc[i] = "l28"
    /\ LET r == list_databases_resource(catalog)
       IN /\ ret' = [ret EXCEPT ![i] = [kind |-> "text", val |-> r.result]]
          /\ catalog' = r.catalog
    /\ pc' = [pc EXCEPT ![i] = "done"]
    /\ running' = 0
    /\ UNCHANGED <<tool, req, raw, scrapeCalls, out, sink>>

\* lines 32-48
ListDatabases(i) ==
    /\ CanRun(i)
    /\ pc[i] = "l48"
    /\ LET r == list_databases(catalog)
       IN /\ ret' = [ret EXCEPT ![i] = [kind |-> "catalog", val |-> r.result]]
          /\ catalog' = r.catalog
    /\ pc' = [pc EXCEPT ![i] = "done"]
    /\ running' = 0
    /\ UNCHANGED <<tool, req, raw, scrapeCalls, out, sink>>

\* lines 63-68
BuildSearchUrl(i) ==
    /\ CanRun(i)
    /\ pc[i] = "l65"
    /\ ret' = [ret EXCEPT ![i] =
                 [kind |-> "url", val |-> build_search_url(req[i].query, req[i].databases)]]
    /\ pc' = [pc EXCEPT ![i] = "done"]
    /\ running' = 0
    /\ UNCHANGED <<catalog, tool, req, raw, scrapeCalls, out, sink>>

----------------------------------------------------------------------------
(* search_austlii and search_with_progress *)

\* line 53: scrape(query, databases), the arguments of search_austlii
SyncScrapeArgs(r) == <<r.query, r.databases>>

\* line 88: scrape(query, databases), the arguments of search_with_progress
ProgressScrapeArgs(r) == <<r.query, r.databases>>

\* lines 53 and 88: scrape() is called, not awaited: the handler keeps the
\* event loop until the call returns or raises
ScrapeCall(i) ==
    /\ CanRun(i)
    /\ pc[i] \in {"l53", "l88"}
    /\ scrapeCalls' = [scrapeCalls EXCEPT ![i] =
                         Append(@, IF pc[i] = "l53" THEN SyncScrapeArgs(req[i])
                                   ELSE ProgressScrapeArgs(req[i]))]
    /\ pc' = [pc EXCEPT ![i] = "scraping"]
    /\ running' = i
    /\ UNCHANGED <<catalog, tool, req, raw, out, ret, sink>>

\* line 53: results is what scrape returned; what it raised leaves the handler
SyncAfterScrape(o) ==
    IF o.ok THEN [pc |-> "l55", ret |-> NoRet]
    ELSE [pc |-> "failed", ret |-> ErrorRet(o.error)]

\* a slip: line 89 is skipped
ProgressAfterScrapeSkipsPackaging(o) ==
    IF o.ok THEN [pc |-> "l90", ret |-> NoRet]
    ELSE [pc |-> "failed", ret |-> ErrorRet(o.error)]

\* a slip: the scrape's error is caught and the search goes on with no results
ProgressAfterScrapeSwallows(o) == [pc |-> "l89", ret |-> NoRet]

\* line 88: results is what scrape returned; what it raised leaves the handler
ProgressAfterScrape(o) ==
    IF o.ok THEN [pc |-> "l89", ret |-> NoRet]
    ELSE [pc |-> "failed", ret |-> ErrorRet(o.error)]

\* the scrape call of request i ends with outcome o
ScrapeEnd(i, o) ==
    /\ running = i
    /\ pc[i] = "scraping"
    /\ raw' = [raw EXCEPT ![i] = o]
    /\ LET a == IF tool[i] = "search_austlii" THEN SyncAfterScrape(o)
                ELSE ProgressAfterScrape(o)
       IN /\ pc' = [pc EXCEPT ![i] = a.pc]
          /\ ret' = [ret EXCEPT ![i] = a.ret]
          /\ running' = IF a.pc = "failed" THEN 0 ELSE i
    /\ UNCHANGED <<catalog, tool, req, scrapeCalls, out, sink>>

\* lines 55-60 of search_austlii
NormalizeSync(i) ==
    /\ CanRun(i)
    /\ pc[i] = "l55"
    /\ LET r == SyncLoop(raw[i].val, <<>>)
       IN IF r.ok
          THEN /\ out' = [out EXCEPT ![i] = r.val]
               /\ ret' = [ret EXCEPT ![i] = ItemsRet(r.val)]
               /\ pc' = [pc EXCEPT ![i] = "done"]
          ELSE /\ ret' = [ret EXCEPT ![i] = ErrorRet(r.error)]
               /\ pc' = [pc EXCEPT ![i] = "failed"]
               /\ out' = out
    /\ running' = 0
    /\ UNCHANGED <<catalog, tool, req, raw, scrapeCalls, sink>>

\* an awaited ctx call at line `at`: the event goes to the request's Context
\* and the handler is suspended at the await
EmitAt(i, at, e, to) ==
    /\ CanRun(i)
    /\ pc[i] = at
    /\ sink' = Emit(sink, i, e)
    /\ pc' = [pc EXCEPT ![i] = to]
    /\ running' = 0
    /\ UNCHANGED <<catalog, tool, req, raw, scrapeCalls, out, ret>>

\* line 86: await ctx.info("Starting AustLII search...")
EmitInfo(i) == EmitAt(i, "l86", InfoEvent, "l87")
\* line 87: await ctx.report_progress(0.3, total=1.0, message="Scraping")
EmitScraping(i) == EmitAt(i, "l87", ScrapingEvent, "l88")
\* line 89: await ctx.report_progress(0.9, total=1.0, message="Packaging")
EmitPackaging(i) == EmitAt(i, "l89", PackagingEvent, "l90")
\* line 93: await ctx.report_progress(1.0, total=1.0, message="Done")
EmitDone(i) == EmitAt(i, "l93", DoneEvent, "l94")

\* lines 90-92 of search_with_progress: no await up to line 93
NormalizeProgress(i) ==
    /\ CanRun(i)
    /\ pc[i] = "l90"
    /\ LET r == ProgressLoop(raw[i].val, <<>>)
       IN IF r.ok
          THEN /\ out' = [out EXCEPT ![i] = r.val]
               /\ pc' = [pc EXCEPT ![i] = "l93"]
               /\ running' = i
               /\ ret' = ret
          ELSE /\ ret' = [ret EXCEPT ![i] = ErrorRet(r.error)]
               /\ pc' = [pc EXCEPT ![i] = "failed"]
               /\ running' = 0
               /\ out' = out
    /\ UNCHANGED <<catalog, tool, req, raw, scrapeCalls, sink>>

\* line 94: return out
ReturnProgress(i) ==
    /\ CanRun(i)
    /\ pc[i] = "l94"
    /\ ret' = [ret EXCEPT ![i] = ItemsRet(out[i])]
    /\ pc' = [pc EXCEPT ![i] = "done"]
    /\ running' = 0
    /\ UNCHANGED <<catalog, tool, req, raw, scrapeCalls, out, sink>>

\* one step of the handler of request i, the scrape's return aside
Step(i) ==
    \/ ListDatabasesResource(i)
    \/ ListDatabases(i)
    \/ BuildSearchUrl(i)
    \/ ScrapeCall(i)
    \/ NormalizeSync(i)
    \/ EmitInfo(i)
    \/ EmitScraping(i)
    \/ EmitPackaging(i)
    \/ NormalizeProgress(i)
    \/ EmitDone(i)
    \/ ReturnProgress(i)

----------------------------------------------------------------------------
(* Spec: the server handling NumInv requests, interleaved at the awaits;  *)
(* a scrape returns at most one record.                                    *)

Inv == 1..NumInv

ConcOutcomes == ScrapeOutcomes(1)

Init == InitOn(Inv)

Next ==
    \/ \E i \in Inv, c \in Calls : Invoke(i, c)
    \/ \E i \in Inv : Step(i)
    \/ \E i \in Inv :
         /\ pc[i] = "scraping"
         /\ \E o \in ConcOutcomes : ScrapeEnd(i, o)

Spec == Init /\ [][Next]_vars

----------------------------------------------------------------------------
(* SpecPair: the same search sent to search_austlii (request 1) and, once *)
(* that has ended, to search_with_progress (request 2); a scrape returns   *)
(* up to MaxResults records.                                               *)

PairOutcomes == ScrapeOutcomes(MaxResults)

InitPair == InitOn({1, 2})

InvokePair ==
    \/ \E r \in Requests : Invoke(1, [tool |-> "search_austlii", req |-> r])
    \/ /\ Terminated(1)
       /\ Invoke(2, [tool |-> "search_with_progress", req |-> req[1]])

NextPair ==
    \/ InvokePair
    \/ \E i \in {1, 2} :
         \/ ScrapeCall(i)
         \/ NormalizeSync(i)
         \/ EmitInfo(i)
         \/ EmitScraping(i)
         \/ EmitPackaging(i)
         \/ NormalizeProgress(i)
         \/ EmitDone(i)
         \/ ReturnProgress(i)
    \/ \E i \in {1, 2} :
         /\ pc[i] = "scraping"
         /\ \E o \in PairOutcomes : ScrapeEnd(i, o)

SpecPair == InitPair /\ [][NextPair]_vars

----------------------------------------------------------------------------
(* SpecUrl: build_search_url on every query of up to MaxQueryLen           *)
(* characters and every list of up to MaxDbs database codes.               *)

QueryAlphabet == {"a", " ", "&", "=", "+", "%", "\"", "/"}

\* a catalog code, a code with a character to escape, the empty code
DbCodes == {DB_HCA, <<"a", "&", "b">>, <<>>}

UrlRequests ==
    [query : SeqsUpTo(QueryAlphabet, MaxQueryLen), databases : SeqsUpTo(DbCodes, MaxDbs)]

InitUrl == InitOn({1})

NextUrl ==
    \/ /\ pc[1] = "idle"
       /\ \E r \in UrlRequests : Invoke(1, [tool |-> "build_search_url", req |-> r])
    \/ BuildSearchUrl(1)

SpecUrl == InitUrl /\ [][NextUrl]_vars

----------------------------------------------------------------------------
(* Properties of search_with_progress *)

AllEvents == <<InfoEvent, ScrapingEvent, PackagingEvent, DoneEvent>>

IsPrefix(s, t) == Len(s) <= Len(t) /\ s = SubSeq(t, 1, Len(s))

\* the events a search_with_progress handler has emitted when it is at line p
ExpectedSink(p) ==
    CASE p = "l86" -> <<>>
      [] p = "l87" -> SubSeq(AllEvents, 1, 1)
      [] p \in {"l88", "scraping", "l89"} -> SubSeq(AllEvents, 1, 2)
      [] p \in {"l90", "l93"} -> SubSeq(AllEvents, 1, 3)
      [] p \in {"l94", "done"} -> AllEvents

\* the fractions of the progress events of s never decrease
FractionsNonDecreasing(s) ==
    \A k, l \in 1..Len(s) :
        (k < l /\ s[k].kind = "progress" /\ s[l].kind = "progress")
            => s[k].progress <= s[l].progress

\* at every line of a handler that has not failed, the sink holds exactly the
\* events of the lines before it, the scrape was called once the 0.3 event
\* was out and not before, it has returned before the 0.9 event, and the
\* value returned after the 1.0 event is the normalized list
C1_AtEveryLine ==
    \A i \in DOMAIN pc :
        (tool[i] = "search_with_progress" /\ pc[i] # "failed") =>
            /\ sink[i] = ExpectedSink(pc[i])
            /\ FractionsNonDecreasing(sink[i])
            /\ Len(scrapeCalls[i]) = (IF pc[i] \in {"l86", "l87", "l88"} THEN 0 ELSE 1)
            /\ raw[i].ok <=> pc[i] \in {"l89", "l90", "l93", "l94", "done"}
            /\ ret[i].kind = (IF pc[i] = "done" THEN "items" ELSE "none")
            /\ pc[i] = "done" => ret[i].val = ProgressLoop(raw[i].val, <<>>).val

\* one step adds at most one event to a sink and takes none away
C1_OneEventPerStep ==
    \A i \in DOMAIN sink :
        \/ sink'[i] = sink[i]
        \/ /\ Len(sink'[i]) = Len(sink[i]) + 1
           /\ IsPrefix(sink[i], sink'[i])

\* C1: a successful search_with_progress emits exactly "Starting AustLII
\* search...", 0.3 "Scraping", (scrape), 0.9 "Packaging", (normalization),
\* 1.0 "Done", (return), in this order, one event per step, none repeated,
\* skipped, reordered or batched, with fractions that never decrease.
C1_EventOrder == []C1_AtEveryLine /\ [][C1_OneEventPerStep]_vars

C1_Witness ==
    \E i \in DOMAIN pc :
        /\ tool[i] = "search_with_progress"
        /\ pc[i] = "done"
        /\ sink[i] = AllEvents
        /\ Len(ret[i].val) = 1

\* C2: when the scrape fails inside search_with_progress, the handler ends
\* with the scrape's own error, after one scrape call, and its sink holds the
\* "Starting" message and the 0.3 event and nothing else, for ever after.
C2_ScrapeFailurePropagates ==
    \A i \in DOMAIN pc :
        (tool[i] = "search_with_progress" /\ ~raw[i].ok /\ raw[i].error # "") =>
            /\ pc[i] = "failed"
            /\ ret[i] = ErrorRet(raw[i].error)
            /\ Len(scrapeCalls[i]) = 1
            /\ sink[i] = <<InfoEvent, ScrapingEvent>>
            /\ out[i] = <<>>

C2_Witness ==
    \E i \in DOMAIN pc :
        /\ tool[i] = "search_with_progress"
        /\ pc[i] = "failed"
        /\ raw[i] = Raise("ConnectionError")
        /\ \A j \in DOMAIN pc : Terminated(j)

----------------------------------------------------------------------------
(* Properties of the normalization *)

\* a raw record with a str title, a str or URL-object url, a str or no metadata
WellFormed(rec) ==
    /\ rec.title.kind = "str"
    /\ rec.url.kind \in {"str", "url"}
    /\ rec.metadata.kind \in {"str", "none"}

\* item is raw record rec normalized: title and metadata copied, url the str
\* of the raw url's text form
NormalizedFrom(item, rec) ==
    /\ item.title = rec.title
    /\ item.metadata = rec.metadata
    /\ item.url.kind = "str"
    /\ item.url.text = rec.url.text

\* C4: for well-formed raw records, search_austlii returns as many items as
\* the scrape gave records, the k-th built from the k-th record with title
\* and metadata copied, and every url a str equal to the raw url's text form.
C4_NormalizePreserves ==
    \A i \in DOMAIN pc :
        ( /\ tool[i] = "search_austlii"
          /\ raw[i].ok
          /\ \A k \in 1..Len(raw[i].val) : WellFormed(raw[i].val[k])
          /\ pc[i] \notin {"scraping", "l55"} ) =>
            /\ pc[i] = "done"
            /\ ret[i].kind = "items"
            /\ Len(ret[i].val) = Len(raw[i].val)
            /\ \A k \in 1..Len(raw[i].val) : NormalizedFrom(ret[i].val[k], raw[i].val[k])

C4_Witness ==
    /\ tool[1] = "search_austlii"
    /\ pc[1] = "done"
    /\ Len(raw[1].val) = 2
    /\ raw[1].val[1].url.kind = "url"
    /\ raw[1].val[2].url.kind = "str"
    /\ ret[1].val[1].url = Str("https://example/2")

\* a raw record whose title or url is absent or null
LacksRequired(rec) ==
    \/ rec.title.kind \in {"none", "missing"}
    \/ rec.url.kind \in {"none", "missing"}

\* C5: whenever some raw record lacks title or url (absent or null), at any
\* position, the search fails: no list is returned and "Done" is not emitted.
C5_MissingFieldFails ==
    \A i \in DOMAIN pc :
        ( /\ tool[i] \in SearchTools
          /\ raw[i].ok
          /\ \E k \in 1..Len(raw[i].val) : LacksRequired(raw[i].val[k])
          /\ pc[i] \notin {"scraping", "l55", "l89", "l90"} ) =>
            /\ pc[i] = "failed"
            /\ ret[i].kind = "error"
            /\ \A k \in 1..Len(sink[i]) : sink[i][k] # DoneEvent

\* the cases of C5 the code does fail on: a title absent or null, a url absent
C5_FailsOnAbsentOrNullTitleAndAbsentUrl ==
    \A i \in DOMAIN pc :
        ( /\ tool[i] \in SearchTools
          /\ raw[i].ok
          /\ \E k \in 1..Len(raw[i].val) :
                \/ raw[i].val[k].title.kind \in {"none", "missing"}
                \/ raw[i].val[k].url.kind = "missing"
          /\ pc[i] \notin {"scraping", "l55", "l89", "l90"} ) =>
            /\ pc[i] = "failed"
            /\ ret[i].kind = "error"
            /\ \A k \in 1..Len(sink[i]) : sink[i][k] # DoneEvent

\* the value, or the error, a handler ended with
SameResult(a, b) ==
    /\ a.kind = b.kind
    /\ a.kind \in {"items", "error"}
    /\ a.val = b.val

\* C6: on the same (query, databases) and the same scrape outcome,
\* search_austlii and search_with_progress each call the scrape once with
\* the unchanged arguments and end alike: the same list of items, or the
\* same failure.
C6_SameAsSearchAustlii ==
    /\ \A i \in DOMAIN pc :
          Terminated(i) => scrapeCalls[i] = << <<req[i].query, req[i].databases>> >>
    /\ ( /\ Terminated(1) /\ Terminated(2)
         /\ req[1] = req[2]
         /\ raw[1] = raw[2] ) =>
            /\ pc[1] = pc[2]
            /\ SameResult(ret[1], ret[2])

C6_Witness ==
    /\ pc[1] = "done" /\ pc[2] = "done"
    /\ tool[1] = "search_austlii" /\ tool[2] = "search_with_progress"
    /\ raw[1] = raw[2]
    /\ Len(ret[2].val) = 2
    /\ ret[2].val[1].metadata.kind = "str"
    /\ sink[2] = AllEvents /\ sink[1] = <<>>

----------------------------------------------------------------------------
(* Reading a URL back: the query string split at & and =, the values       *)
(* decoded as urllib.parse.parse_qsl does (+ is a space, %XX a character)  *)

\* the part of the URL text after the first ?
QueryString(url) ==
    LET marks == {k \in 1..Len(url) : url[k] = "?"}
    IN IF marks = {} THEN <<>>
       ELSE SubSeq(url, (CHOOSE k \in marks : \A j \in marks : k <= j) + 1, Len(url))

\* the pieces of s between the separators sep, the empty ones kept
SplitOn(s, sep) ==
    LET at == {k \in 1..Len(s) : s[k] = sep}
        \* the n-th separator; 0 before the first piece, Len(s)+1 after the last
        cut(n) == IF n = 0 THEN 0
                  ELSE IF n > Cardinality(at) THEN Len(s) + 1
                  ELSE CHOOSE k \in at : Cardinality({j \in at : j < k}) = n - 1
    IN [n \in 1..(Cardinality(at) + 1) |-> SubSeq(s, cut(n - 1) + 1, cut(n) - 1)]

\* name=value split at the first =
SplitFirst(s) ==
    LET at == {k \in 1..Len(s) : s[k] = "="}
    IN IF at = {} THEN <<s, <<>>>>
       ELSE LET k == CHOOSE k \in at : \A j \in at : k <= j
            IN <<SubSeq(s, 1, k - 1), SubSeq(s, k + 1, Len(s))>>

HexDigits ==
    {"0","1","2","3","4","5","6","7","8","9",
     "A","B","C","D","E","F","a","b","c","d","e","f"}

\* the character with the ASCII code h1 h2; "?" stands for any other
FromHex(h1, h2) ==
    CASE h1 = "2" /\ h2 = "0" -> " "
      [] h1 = "2" /\ h2 = "2" -> "\""
      [] h1 = "2" /\ h2 = "5" -> "%"
      [] h1 = "2" /\ h2 = "6" -> "&"
      [] h1 = "2" /\ h2 \in {"B", "b"} -> "+"
      [] h1 = "2" /\ h2 \in {"F", "f"} -> "/"
      [] h1 = "3" /\ h2 \in {"D", "d"} -> "="
      [] OTHER -> "?"

\* unquote_plus: + is a space, %XX the character, anything else itself
RECURSIVE UnquotePlus(_)
UnquotePlus(s) ==
    IF s = <<>> THEN <<>>
    ELSE IF Head(s) = "+" THEN <<" ">> \o UnquotePlus(Tail(s))
    ELSE IF Head(s) = "%" /\ Len(s) >= 3 /\ s[2] \in HexDigits /\ s[3] \in HexDigits
         THEN <<FromHex(s[2], s[3])>> \o UnquotePlus(SubSeq(s, 4, Len(s)))
    ELSE <<Head(s)>> \o UnquotePlus(Tail(s))

\* the name=value pieces of a URL, not decoded
RawParams(url) ==
    LET segs == SplitOn(QueryString(url), "&")
    IN [k \in 1..Len(segs) |-> SplitFirst(segs[k])]

\* the parameters of a URL, decoded
ParseQs(url) ==
    LET ps == RawParams(url)
    IN [k \in 1..Len(ps) |-> <<UnquotePlus(ps[k][1]), UnquotePlus(ps[k][2])>>]

----------------------------------------------------------------------------
(* Properties of build_search_url *)

\* C3: the URL's parameters are query (the query), method=boolean, meta=/au
\* and then one mask_path per database code, in the caller's order: as many
\* mask_path as codes, none for an empty list.
C3_UrlParams ==
    (tool[1] = "build_search_url" /\ pc[1] = "done") =>
        /\ ret[1].val[1] = SearchEndpoint
        /\ ParseQs(ret[1].val) =
              << <<K_query, req[1].query>>, <<K_method, V_boolean>>, <<K_meta, V_au>> >>
                 \o [k \in 1..Len(req[1].databases) |-> <<K_mask_path, req[1].databases[k]>>]

C3_Witness ==
    /\ tool[1] = "build_search_url"
    /\ pc[1] = "done"
    /\ req[1].databases = <<DB_HCA, <<"a", "&", "b">>>>
    /\ Len(req[1].query) = 2

\* C7: decoding the query parameter of the URL gives the query back, and the
\* text after the query parameter is what an empty query gives: the query
\* adds no parameter and changes none of method, meta and mask_path.
C7_QueryRoundTrip ==
    (tool[1] = "build_search_url" /\ pc[1] = "done") =>
        /\ Tail(RawParams(ret[1].val))
              = Tail(RawParams(build_search_url(<<>>, req[1].databases)))
        /\ LET q == Head(RawParams(ret[1].val))
           IN <<q[1], UnquotePlus(q[2])>> = <<K_query, req[1].query>>

C7_Witness ==
    /\ tool[1] = "build_search_url"
    /\ pc[1] = "done"
    /\ req[1].query = <<"&", "+">>
    /\ RawParams(ret[1].val)[1][2] = <<"%", "2", "6", "%", "2", "B">>
    /\ req[1].databases # <<>>

----------------------------------------------------------------------------
(* Properties of the server *)

\* C8: the catalog is what it was at process start whatever requests were
\* handled, and every list_databases call returned that same content.
C8_CatalogUnchanged ==
    /\ catalog = DATABASE_TOOLS_LIST
    /\ \A i \in DOMAIN pc :
          (tool[i] = "list_databases" /\ pc[i] = "done") => ret[i].val = DATABASE_TOOLS_LIST
    /\ \A i \in DOMAIN pc :
          (tool[i] = "list_databases_resource" /\ pc[i] = "done")
              => ret[i].val = JsonDumps(DATABASE_TOOLS_LIST)

C8_Witness ==
    /\ \A i \in DOMAIN pc : Terminated(i)
    /\ \E i, j \in DOMAIN pc :
          /\ i < j
          /\ tool[i] = "list_databases"
          /\ tool[j] = "list_databases"
          /\ ret[i] = ret[j]

\* C9: a search_with_progress handler whose scrape call is in flight has let
\* go of the event loop, so that any other request's handler can run.
C9_ScrapeIsSuspensionPoint ==
    \A i \in DOMAIN pc :
        (tool[i] = "search_with_progress" /\ pc[i] = "scraping") =>
            \A j \in DOMAIN pc : CanRun(j)

\* what the code does: the handler can lose the loop only at its four awaits
C9_SuspendedOnlyAtAwaits ==
    \A i \in DOMAIN pc :
        (tool[i] = "search_with_progress" /\ running # i) =>
            pc[i] \in {"l86", "l87", "l88", "l90", "l94", "done", "failed"}

\* C10: under every interleaving each search_with_progress sink holds a
\* prefix of its own four events and no other sink holds any event, a handler
\* that ended does not hold the loop, a handler fails only on its own scrape
\* outcome, and a returned list is built from the handler's own scrape output.
C10_Independent ==
    \A i \in DOMAIN pc :
        /\ IF tool[i] = "search_with_progress"
           THEN IsPrefix(sink[i], AllEvents)
           ELSE sink[i] = <<>>
        /\ Terminated(i) => running # i
        /\ (pc[i] = "failed") =>
              \/ ~raw[i].ok /\ ret[i] = ErrorRet(raw[i].error)
              \/ raw[i].ok /\ \E k \in 1..Len(raw[i].val) : ~WellFormed(raw[i].val[k])
        /\ (pc[i] = "done" /\ tool[i] \in SearchTools) =>
              /\ raw[i].ok
              /\ Len(ret[i].val) = Len(raw[i].val)
              /\ \A k \in 1..Len(raw[i].val) : ret[i].val[k].title = raw[i].val[k].title

C10_Witness ==
    \E i, j \in DOMAIN pc :
        /\ tool[i] = "search_with_progress" /\ tool[j] = "search_with_progress"
        /\ pc[i] = "failed" /\ sink[i] = <<InfoEvent, ScrapingEvent>>
        /\ pc[j] = "done" /\ sink[j] = AllEvents
        /\ Len(ret[j].val) = 1

============================================================================
